---- MODULE Spec2Model ----
(***************************************************************************)
(* A model of VibeCheck's recommendation cascade (src/app.py): the track   *)
(* key normaliser, the unique-track merger, the Last.fm accessors and the  *)
(* two request handlers /identify and /recommend.                          *)
(*                                                                         *)
(* Strings are sequences of one-character strings, so that strip() and     *)
(* lower() are computed and not assumed.  Python's None is the value NONE. *)
(* A track is the record [artist, name]; the url and match fields are      *)
(* copied through by the code and never read, and are left out.            *)
(***************************************************************************)
EXTENDS Integers, Sequences, FiniteSets, TLC

(***************************************************************************)
(* Strings                                                                 *)
(***************************************************************************)
NONE == <<"None">>

S(c) == <<c>>

\* Python: x or ""
OrEmpty(x) == IF x = NONE THEN <<>> ELSE x

\* Python: bool(x) for a string or None
Truthy(x) == x # NONE /\ x # <<>>

LowerChar(c) ==
    CASE c = "A" -> "a"
      [] c = "B" -> "b"
      [] c = "C" -> "c"
      [] c = "F" -> "f"
      [] c = "T" -> "t"
      [] c = "X" -> "x"
      [] c = "Y" -> "y"
      [] c = "Z" -> "z"
      [] OTHER -> c

\* str.lower()
Lower(s) == [i \in 1..Len(s) |-> LowerChar(s[i])]

IsSpace(c) == c = " "

RECURSIVE LStrip(_)
LStrip(s) == IF s # <<>> /\ IsSpace(Head(s)) THEN LStrip(Tail(s)) ELSE s

RECURSIVE RStrip(_)
RStrip(s) ==
    IF s # <<>> /\ IsSpace(s[Len(s)]) THEN RStrip(SubSeq(s, 1, Len(s) - 1)) ELSE s

\* str.strip()
Strip(s) == RStrip(LStrip(s))

\* t occurs in s at the 0-based index i
OccursAt(s, t, i) == i >= 0 /\ i + Len(t) <= Len(s) /\ SubSeq(s, i + 1, i + Len(t)) = t

\* t in s
Contains(s, t) == \E i \in 0..Len(s) : OccursAt(s, t, i)

\* str.find(t): the lowest 0-based index where t occurs, -1 when there is none
Find(s, t) ==
    IF Contains(s, t)
    THEN CHOOSE i \in 0..Len(s) : OccursAt(s, t, i) /\ \A j \in 0..(i - 1) : ~OccursAt(s, t, j)
    ELSE -1

\* s[:idx]
Prefix(s, idx) == SubSeq(s, 1, idx)

(***************************************************************************)
(* The artist name normaliser                                              *)
(***************************************************************************)
Separators == <<<<"/">>, <<"&">>, <<",">>, <<";">>>>

Tokens ==
    << <<" ", "f", "e", "a", "t", ".", " ">>,
       <<" ", "f", "e", "a", "t", " ">>,
       <<" ", "f", "t", ".", " ">>,
       <<" ", "f", "t", " ">>,
       <<" ", "f", "e", "a", "t", "u", "r", "i", "n", "g", " ">> >>

\* for sep in [...]: if sep in s: s = s.split(sep, 1)[0].strip()
RECURSIVE SeparatorLoop(_, _)
SeparatorLoop(s, k) ==
    IF k > Len(Separators) THEN s
    ELSE LET sep == Separators[k]
         IN  IF Contains(s, sep)
             THEN SeparatorLoop(Strip(Prefix(s, Find(s, sep))), k + 1)
             ELSE SeparatorLoop(s, k + 1)

\* for token in [...]: if token in s.lower(): s = s[:s.lower().find(token)].strip()
RECURSIVE TokenLoop(_, _)
TokenLoop(s, k) ==
    IF k > Len(Tokens) THEN s
    ELSE LET token == Tokens[k]
         IN  IF Contains(Lower(s), token)
             THEN TokenLoop(Strip(Prefix(s, Find(Lower(s), token))), k + 1)
             ELSE TokenLoop(s, k + 1)

_normalize_lastfm_artist(raw_artist) ==
    TokenLoop(SeparatorLoop(Strip(OrEmpty(raw_artist)), 1), 1)

(***************************************************************************)
(* Tracks and the merger                                                   *)
(***************************************************************************)
Track(a, n) == [artist |-> a, name |-> n]

\* a tier runs while the list is at or below the limit
AtOrBelowLimit(tracks, lim) == Len(tracks) <= lim

\* a tier runs only while the list is empty
NothingYet(tracks, lim) == tracks = <<>>

\* the guard of a tier: len(similar_tracks) < limit
BelowLimit(tracks, lim) == Len(tracks) < lim

EmptyKey == <<<<>>, <<>>>>

_track_key(track) ==
    <<Lower(Strip(OrEmpty(track.artist))), Lower(Strip(OrEmpty(track.name)))>>

Keys(list) == {_track_key(list[i]) : i \in 1..Len(list)}

RECURSIVE MergeLoop(_, _, _, _)
MergeLoop(out, seen, incoming, limit) ==
    IF incoming = <<>> THEN out
    ELSE IF Len(out) >= limit THEN out
    ELSE LET t == Head(incoming)
             key == _track_key(t)
         IN  IF key = EmptyKey \/ key \in seen
             THEN MergeLoop(out, seen, Tail(incoming), limit)
             ELSE MergeLoop(Append(out, t), seen \cup {key}, Tail(incoming), limit)

RECURSIVE MergeLoopNoSeen(_, _, _, _)
MergeLoopNoSeen(out, seen, incoming, limit) ==
    IF incoming = <<>> THEN out
    ELSE IF Len(out) >= limit THEN out
    ELSE LET t == Head(incoming)
             key == _track_key(t)
         IN  IF key = EmptyKey \/ key \in seen
             THEN MergeLoopNoSeen(out, seen, Tail(incoming), limit)
             ELSE MergeLoopNoSeen(Append(out, t), seen, Tail(incoming), limit)

\* the merger with the seen-set never updated inside the loop
MergeNoSeenUpdate(base, incoming, limit) ==
    MergeLoopNoSeen(base, Keys(base), incoming, limit)

RECURSIVE MergeLoopNoLimit(_, _, _)
MergeLoopNoLimit(out, seen, incoming) ==
    IF incoming = <<>> THEN out
    ELSE LET t == Head(incoming)
             key == _track_key(t)
         IN  IF key = EmptyKey \/ key \in seen
             THEN MergeLoopNoLimit(out, seen, Tail(incoming))
             ELSE MergeLoopNoLimit(Append(out, t), seen \cup {key}, Tail(incoming))

\* the merger without the check of the limit
MergeNoLimit(base, incoming, limit) == MergeLoopNoLimit(base, Keys(base), incoming)

\* the merger with a seen-set that starts empty
MergeNoSeed(base, incoming, limit) == MergeLoop(base, {}, incoming, limit)

_merge_unique_tracks(base, incoming, limit) ==
    MergeLoop(base, Keys(base), incoming, limit)

\* out = base, without the copy: the appends land in the caller's list
BaseAliased(base, incoming, limit) == _merge_unique_tracks(base, incoming, limit)

\* the caller's list after the call: out = list(base) is a copy, and only out
\* is appended to
BaseAfterMerge(base, incoming, limit) == base

(***************************************************************************)
(* Bounds of the remote service's answers                                  *)
(***************************************************************************)
\* a short answer is Catalogue[s .. s+k-1] with s in WindowStarts, k <= MaxResp
MaxResp == 3
\* entries in an artist.getSimilar answer
MaxArtists == 3
\* entries in the caller's exclude list
MaxExclude == 2
\* lengths of the lists handed to the merger on its own
MaxBase == 2
MaxIncoming == 3
\* the number of pieces an artist string given to the normaliser is built from
MaxPieces == 4

(***************************************************************************)
(* Program constants                                                       *)
(***************************************************************************)
IdentifyLimit == 5
Desired == 5
OverFetch == 10
TagLimit == 3

(***************************************************************************)
(* What the remote service can answer.  A payload is                       *)
(*   kind "transport": connection error, timeout or non-2xx status         *)
(*   kind "error":     a JSON object with an "error" member                *)
(*   kind "malformed": JSON whose container member is not an object        *)
(*   kind "absent":    the member is missing                               *)
(*   kind "dict":      the member is one object (val holds it)             *)
(*   kind "list":      the member is an array (val)                        *)
(***************************************************************************)
Payload(k, v) == [kind |-> k, val |-> v]

\* a JSON track: its artist member is an object {"name": ..} or a plain value
Item(isdict, a, n) == [artist |-> [isdict |-> isdict, val |-> a], name |-> n]

ArtistLetters == <<"a", "b", "c">>
NameLetters == <<"x", "y", "z">>

RECURSIVE NameOf(_)
NameOf(j) == IF j < 3 THEN S(NameLetters[j + 1]) ELSE S("x") \o NameOf(j - 3)

\* pairwise distinct keys: (a,x) (b,x) (c,x) (a,y) (b,y) (c,y) (a,z) ...
GenItem(j) == Item(j % 2 = 1, S(ArtistLetters[(j % 3) + 1]), NameOf(j \div 3))

DupItem == Item(FALSE, <<" ", "A">>, <<"X", " ">>)
BlankItem == Item(TRUE, NONE, <<" ">>)

\* the service's tracks in rank order: a track without a usable key, a track,
\* the same track spelt differently, then tracks with pairwise distinct keys
Catalogue(i) ==
    CASE i = 1 -> BlankItem
      [] i = 2 -> GenItem(0)
      [] i = 3 -> DupItem
      [] OTHER -> GenItem(i - 3)

WindowStarts == {1, 2}

Window(s, k) == [i \in 1..k |-> Catalogue(s + i - 1)]

\* a page of pairwise distinct tracks
Page(n) == [i \in 1..n |-> GenItem(i - 1)]

\* longer than any limit the handlers pass
LongLen == Desired + (1 + MaxExclude) + OverFetch + 1

FailurePayloads ==
    {Payload("transport", <<>>), Payload("error", <<>>), Payload("malformed", <<>>)}

TrackPayloads ==
    FailurePayloads
      \cup {Payload("absent", <<>>), Payload("list", <<>>)}
      \cup {Payload("list", Page(Desired)), Payload("list", Page(LongLen))}
      \cup {Payload("dict", <<Catalogue(s)>>) : s \in WindowStarts}
      \cup {Payload("list", Window(s, k)) : s \in WindowStarts, k \in 1..MaxResp}

(***************************************************************************)
(* The accessors.  Each returns [exc, out]: exc is "none", or the          *)
(* exception raised ("RequestException" for requests.RequestException and  *)
(* its subclass HTTPError, "AttributeError" for a .get on a non-object).   *)
(***************************************************************************)
Return(out) == [exc |-> "none", out |-> out]
Raise(e) == [exc |-> e, out |-> <<>>]

\* list[:limit]
Take(list, limit) == SubSeq(list, 1, IF Len(list) < limit THEN Len(list) ELSE limit)

\* (t.get("artist") or {}).get("name") if isinstance(t.get("artist"), dict)
\* else t.get("artist")
ItemArtist(t) == t.artist.val

ExtractTrack(t) == Track(ItemArtist(t), t.name)

\* the lines the three track accessors share: raise_for_status, the "error"
\* member, the single-object coercion, the slice and the mapping
TracksOf(payload, limit) ==
    CASE payload.kind = "transport" -> Raise("RequestException")
      [] payload.kind = "error" -> Raise("RequestException")
      [] payload.kind = "malformed" -> Raise("AttributeError")
      [] payload.kind = "absent" -> Return(<<>>)
      [] OTHER ->
           LET tracks == IF payload.kind = "dict" THEN <<payload.val[1]>> ELSE payload.val
               cut == Take(tracks, limit)
           IN  Return([i \in 1..Len(cut) |-> ExtractTrack(cut[i])])

_lastfm_get_similar(payload, limit) == TracksOf(payload, limit)

_lastfm_get_similar_via_tags(payload, limit) == TracksOf(payload, limit)

_lastfm_get_chart_top_tracks(payload, limit) == TracksOf(payload, limit)

(***************************************************************************)
(* track.getTopTags                                                        *)
(***************************************************************************)
\* tag names in the service's order; "" stands for a tag without a name
TagCatalogue == <<"rock", "", "pop", "indie", "jazz">>

TagPayloads ==
    FailurePayloads
      \cup {Payload("absent", <<>>), Payload("dict", <<"rock">>)}
      \cup {Payload("list", SubSeq(TagCatalogue, 1, k)) : k \in 0..Len(TagCatalogue)}

RECURSIVE TagNames(_, _, _)
TagNames(tags, names, limit) ==
    IF tags = <<>> THEN names
    ELSE LET name == Head(tags)
             names2 == IF name # "" THEN Append(names, name) ELSE names
         IN  IF Len(names2) >= limit THEN names2
             ELSE TagNames(Tail(tags), names2, limit)

_lastfm_get_top_tags(payload, limit) ==
    CASE payload.kind = "transport" -> Raise("RequestException")
      [] payload.kind = "error" -> Raise("RequestException")
      [] payload.kind = "malformed" -> Raise("AttributeError")
      [] payload.kind = "absent" -> Return(<<>>)
      [] OTHER ->
           LET tags == IF payload.kind = "dict" THEN <<payload.val[1]>> ELSE payload.val
           IN  Return(TagNames(tags, <<>>, limit))

(***************************************************************************)
(* artist.getSimilar and artist.getTopTracks                               *)
(***************************************************************************)
\* the similar artists in rank order: an artist of the catalogue, an entry
\* without a name, then artists the catalogue does not hold
ArtistName(i) ==
    CASE i = 1 -> S("a")
      [] i = 2 -> <<>>
      [] OTHER -> S("d") \o NameOf(i - 3)

ArtistPayloads ==
    FailurePayloads
      \cup {Payload("absent", <<>>), Payload("dict", <<ArtistName(1)>>)}
      \cup {Payload("list", [i \in 1..k |-> ArtistName(i)]) : k \in 0..MaxArtists}

TopX == Item(FALSE, NONE, <<"X", " ">>)
TopY == Item(FALSE, NONE, <<"y">>)

TopTrackPayloads ==
    FailurePayloads
      \cup {Payload("absent", <<>>), Payload("list", <<>>),
            Payload("dict", <<TopX>>), Payload("list", <<TopX, TopY>>)}

\* lines 113-129: the artist.getSimilar request; out is artists[:limit]
SimilarArtists(payload, limit) ==
    CASE payload.kind = "transport" -> Raise("RequestException")
      [] payload.kind = "error" -> Raise("RequestException")
      [] payload.kind = "malformed" -> Raise("AttributeError")
      [] payload.kind = "absent" -> Return(<<>>)
      [] OTHER ->
           LET arts == IF payload.kind = "dict" THEN <<payload.val[1]>> ELSE payload.val
           IN  Return(Take(arts, limit))

\* lines 137-159: one artist's top-track request; out is what the iteration
\* appends to the tier's list
TopTrackOf(a_name, payload) ==
    CASE payload.kind = "transport" -> Raise("RequestException")
      [] payload.kind = "error" -> Return(<<>>)
      [] payload.kind = "malformed" -> Raise("AttributeError")
      [] payload.kind = "absent" -> Return(<<>>)
      [] OTHER ->
           LET top_tracks == IF payload.kind = "dict" THEN <<payload.val[1]>>
                             ELSE payload.val
           IN  IF top_tracks # <<>>
               THEN Return(<<Track(a_name, top_tracks[1].name)>>)
               ELSE Return(<<>>)

(***************************************************************************)
(* State of one request                                                    *)
(***************************************************************************)
VARIABLES
    pc,                   \* where the handler stands
    endpoint,             \* "identify" or "recommend" ("none" before a request)
    status,               \* HTTP status of the response, 0 while running
    body,                 \* /recommend: the artist and title of the JSON body
    artist, title,        \* /recommend: the seed as validated
    exclude_keys,         \* /recommend: the exclusion set
    playcount,            \* /recommend: [null, val]
    top_tags,
    lastfm_tags_error,    \* /identify: TRUE when the error string is set
    lastfm_similar_error,
    similar_tracks,
    similar_sources,
    similar_source,
    from_track, from_artist, tag_collected, from_chart,
    artists, artist_i, via_out, via_exc,  \* the frame of _lastfm_get_similar_via_artist
    tag_i,                \* 1-based position of the tag loop in top_tags
    unfiltered,           \* history: similar_tracks as it was before the filter
    calls,                \* history: the remote calls issued, in order
    tags_outcome,         \* history: how /identify's top-tags fetch ended
    similar_outcome,      \* history: how /identify's exact-track fetch ended
    info_outcome,         \* history: how /recommend's track.getInfo fetch ended
    m_base, m_incoming, m_limit, m_out,  \* a call of _merge_unique_tracks on its own
    m_base_after,         \* the caller's base list once the call has returned
    m_again,              \* the result of merging m_incoming into m_out once more
    n_artist, n_out       \* a call of _normalize_lastfm_artist on its own

request == <<endpoint, body, artist, title, exclude_keys>>
tiers == <<from_track, from_artist, tag_collected, from_chart>>
frame == <<artists, artist_i, via_out, via_exc>>
result == <<similar_tracks, similar_sources>>
errors == <<lastfm_tags_error, lastfm_similar_error>>
outcomes == <<tags_outcome, similar_outcome, info_outcome>>
mergeCall == <<m_base, m_incoming, m_limit, m_out, m_base_after, m_again>>
normCall == <<n_artist, n_out>>

vars == <<pc, status, request, playcount, top_tags, errors, result, similar_source,
          tiers, frame, tag_i, unfiltered, calls, outcomes, mergeCall, normCall>>

NoPlaycount == [null |-> TRUE, val |-> 0]

Idle ==
    /\ endpoint = "none"
    /\ status = 0
    /\ body = [artist |-> NONE, title |-> NONE]
    /\ artist = <<>> /\ title = <<>>
    /\ exclude_keys = {}
    /\ playcount = NoPlaycount
    /\ top_tags = <<>>
    /\ lastfm_tags_error = FALSE
    /\ lastfm_similar_error = FALSE
    /\ similar_tracks = <<>>
    /\ similar_sources = <<>>
    /\ similar_source = ""
    /\ from_track = <<>> /\ from_artist = <<>>
    /\ tag_collected = <<>> /\ from_chart = <<>>
    /\ artists = <<>> /\ artist_i = 0 /\ via_out = <<>> /\ via_exc = FALSE
    /\ tag_i = 0
    /\ unfiltered = <<>>
    /\ calls = <<>>
    /\ tags_outcome = "none" /\ similar_outcome = "none" /\ info_outcome = "none"

NoMerge ==
    /\ m_base = <<>> /\ m_incoming = <<>> /\ m_limit = 0 /\ m_out = <<>>
    /\ m_base_after = <<>> /\ m_again = <<>>

NoNormalize == n_artist = <<>> /\ n_out = <<>>

Init == pc = "idle" /\ Idle /\ NoMerge /\ NoNormalize

\* how a remote call ended: "failed" is a connection error, a timeout, a non-2xx
\* status or an "error" payload; "malformed" is JSON of an unexpected shape
Outcome(payload) ==
    CASE payload.kind \in {"transport", "error"} -> "failed"
      [] payload.kind = "malformed" -> "malformed"
      [] OTHER -> "ok"

\* what a remote call leaves in the log: the operation, the position of the
\* tag or artist it is for, and the number of accumulated tracks at that moment
Call(op, arg) ==
    calls' = Append(calls, [op |-> op, arg |-> arg, n |-> Len(similar_tracks)])

\* an exception no handler catches: the request ends in a 500
Propagate == pc' = "done" /\ status' = 500

\* the summary naming the first source even when several tiers contributed
SourceSummaryFirst(sources) == IF sources # <<>> THEN sources[1] ELSE "none"

\* line 385 and line 532
SourceSummary(sources) ==
    IF Len(sources) > 1 THEN "merged"
    ELSE IF sources # <<>> THEN sources[1] ELSE "none"

(***************************************************************************)
(* POST /identify                                                          *)
(***************************************************************************)
Uploads == {"missing", "empty", "audio"}
AcrAnswers ==
    {"request_failed", "invalid_json", "no_match", "no_metadata",
     "no_artist_or_title", "match"}

\* lines 249-320: the upload and the fingerprint lookup
IdentifyStatus(upload, acr) ==
    CASE upload = "missing" -> 400
      [] upload = "empty" -> 400
      [] acr = "request_failed" -> 502
      [] acr = "invalid_json" -> 502
      [] acr = "no_match" -> 404
      [] acr = "no_metadata" -> 502
      [] acr = "no_artist_or_title" -> 502
      [] OTHER -> 0

Identify ==
    /\ pc = "idle"
    /\ \E upload \in Uploads, acr \in AcrAnswers :
         LET st == IdentifyStatus(upload, acr)
         IN  /\ status' = st
             /\ pc' = IF st = 0 THEN "tags" ELSE "done"
    /\ endpoint' = "identify"
    /\ UNCHANGED <<body, artist, title, exclude_keys, playcount, top_tags, errors,
                   result, similar_source, tiers, frame, tag_i, unfiltered, calls,
                   outcomes, mergeCall, normCall>>

\* lines 322-329
IdTopTags ==
    /\ pc = "tags" /\ endpoint = "identify"
    /\ \E payload \in TagPayloads :
      /\ tags_outcome' = Outcome(payload)
      /\ LET r == _lastfm_get_top_tags(payload, TagLimit)
         IN  CASE r.exc = "none" ->
                    /\ top_tags' = r.out
                    /\ lastfm_tags_error' = FALSE
                    /\ pc' = "track" /\ status' = status
               [] r.exc = "RequestException" ->
                    /\ top_tags' = <<>>
                    /\ lastfm_tags_error' = TRUE
                    /\ pc' = "track" /\ status' = status
               [] OTHER ->
                    /\ Propagate
                    /\ UNCHANGED <<top_tags, lastfm_tags_error>>
    /\ Call("track.getTopTags", 0)
    /\ UNCHANGED <<request, playcount, lastfm_similar_error, result, similar_source,
                   tiers, frame, tag_i, unfiltered, similar_outcome, info_outcome, mergeCall, normCall>>

\* lines 331-347
IdTrackTier ==
    /\ pc = "track" /\ endpoint = "identify"
    /\ \E payload \in TrackPayloads :
      /\ similar_outcome' = Outcome(payload)
      /\ LET r == _lastfm_get_similar(payload, IdentifyLimit)
         IN  CASE r.exc = "AttributeError" ->
                    /\ Propagate
                    /\ UNCHANGED <<from_track, lastfm_similar_error, result>>
               [] OTHER ->
                    /\ from_track' = r.out
                    /\ lastfm_similar_error' = (r.exc = "RequestException")
                    /\ IF r.out # <<>>
                       THEN /\ similar_sources' = Append(similar_sources, "track.getSimilar")
                            /\ similar_tracks' =
                                 _merge_unique_tracks(similar_tracks, r.out, IdentifyLimit)
                       ELSE UNCHANGED result
                    /\ pc' = "artist" /\ status' = status
    /\ Call("track.getSimilar", 0)
    /\ UNCHANGED <<request, playcount, top_tags, lastfm_tags_error, similar_source,
                   from_artist, tag_collected, from_chart, frame, tag_i, unfiltered,
                   tags_outcome, info_outcome, mergeCall, normCall>>

\* lines 349-352, with the accessor's own request (lines 113-131)
IdArtistTier ==
    /\ pc = "artist" /\ endpoint = "identify"
    /\ IF BelowLimit(similar_tracks, IdentifyLimit)
       THEN /\ \E payload \in ArtistPayloads :
                 LET r == SimilarArtists(payload, IdentifyLimit)
                 IN  CASE r.exc = "AttributeError" ->
                            /\ Propagate
                            /\ UNCHANGED frame
                       [] OTHER ->
                            /\ artists' = r.out
                            /\ artist_i' = 1
                            /\ via_out' = <<>>
                            /\ via_exc' = (r.exc = "RequestException")
                            /\ pc' = IF r.out # <<>> THEN "lookup" ELSE "artist_end"
                            /\ status' = status
            /\ Call("artist.getSimilar", 0)
       ELSE /\ pc' = "tag"
            /\ UNCHANGED <<status, frame, calls>>
    /\ UNCHANGED <<request, playcount, top_tags, errors, result, similar_source, tiers,
                   tag_i, unfiltered, outcomes, mergeCall, normCall>>

\* lines 132-160: one iteration of the accessor's loop over the similar artists,
\* for either handler
ArtistLookup ==
    /\ pc = "lookup"
    /\ LET a_name == artists[artist_i]
           more == artist_i < Len(artists)
       IN  IF ~Truthy(a_name)
           THEN /\ artist_i' = artist_i + 1
                /\ pc' = IF more THEN "lookup" ELSE "artist_end"
                /\ UNCHANGED <<status, via_out, via_exc, calls>>
           ELSE /\ \E payload \in TopTrackPayloads :
                     LET r == TopTrackOf(a_name, payload)
                     IN  CASE r.exc = "AttributeError" ->
                                /\ Propagate
                                /\ UNCHANGED <<artist_i, via_out, via_exc>>
                           [] r.exc = "RequestException" ->
                                /\ via_exc' = TRUE
                                /\ pc' = "artist_end"
                                /\ UNCHANGED <<status, artist_i, via_out>>
                           [] OTHER ->
                                /\ via_out' = via_out \o r.out
                                /\ artist_i' = artist_i + 1
                                /\ pc' = IF more THEN "lookup" ELSE "artist_end"
                                /\ UNCHANGED <<status, via_exc>>
                /\ Call("artist.getTopTracks", artist_i)
    /\ UNCHANGED <<request, playcount, top_tags, errors, result, similar_source, tiers,
                   artists, tag_i, unfiltered, outcomes, mergeCall, normCall>>

\* lines 353-357
IdArtistEnd ==
    /\ pc = "artist_end" /\ endpoint = "identify"
    /\ LET got == IF via_exc THEN <<>> ELSE via_out
       IN  /\ from_artist' = got
           /\ IF got # <<>>
              THEN /\ similar_sources' = Append(similar_sources, "artist.getSimilar")
                   /\ similar_tracks' =
                        _merge_unique_tracks(similar_tracks, got, IdentifyLimit)
              ELSE UNCHANGED result
    /\ pc' = "tag"
    /\ UNCHANGED <<status, request, playcount, top_tags, errors, similar_source,
                   from_track, tag_collected, from_chart, frame, tag_i, unfiltered, calls,
                   outcomes, mergeCall, normCall>>

\* lines 360-361
IdTagTier ==
    /\ pc = "tag" /\ endpoint = "identify"
    /\ IF BelowLimit(similar_tracks, IdentifyLimit) /\ top_tags # <<>>
       THEN /\ tag_collected' = <<>>
            /\ tag_i' = 1
            /\ pc' = "tag_loop"
       ELSE /\ pc' = "chart"
            /\ UNCHANGED <<tag_collected, tag_i>>
    /\ UNCHANGED <<status, request, playcount, top_tags, errors, result, similar_source,
                   from_track, from_artist, from_chart, frame, unfiltered, calls,
                   outcomes, mergeCall, normCall>>

\* the loop calling the same tag again after a failed call
IdTagCallRetrying ==
    /\ pc = "tag_loop" /\ endpoint = "identify"
    /\ tag_i <= Len(top_tags) /\ Len(tag_collected) < IdentifyLimit
    /\ \E payload \in TrackPayloads :
         LET r == _lastfm_get_similar_via_tags(payload, IdentifyLimit)
         IN  CASE r.exc = "AttributeError" ->
                    /\ Propagate
                    /\ UNCHANGED <<tag_collected, tag_i>>
               [] r.exc = "RequestException" ->
                    /\ UNCHANGED <<pc, status, tag_collected, tag_i>>
               [] OTHER ->
                    /\ tag_collected' =
                         _merge_unique_tracks(tag_collected, r.out, IdentifyLimit)
                    /\ tag_i' = tag_i + 1
                    /\ UNCHANGED <<pc, status>>
    /\ Call("tag.getTopTracks", tag_i)
    /\ UNCHANGED <<request, playcount, top_tags, errors, result, similar_source,
                   from_track, from_artist, from_chart, frame, unfiltered, outcomes, mergeCall, normCall>>

\* lines 362-369: one iteration of the loop over top_tags
IdTagCall ==
    /\ pc = "tag_loop" /\ endpoint = "identify"
    /\ tag_i <= Len(top_tags) /\ Len(tag_collected) < IdentifyLimit
    /\ \E payload \in TrackPayloads :
         LET r == _lastfm_get_similar_via_tags(payload, IdentifyLimit)
         IN  CASE r.exc = "AttributeError" ->
                    /\ Propagate
                    /\ UNCHANGED <<tag_collected, tag_i>>
               [] r.exc = "RequestException" ->
                    /\ tag_i' = tag_i + 1
                    /\ UNCHANGED <<pc, status, tag_collected>>
               [] OTHER ->
                    /\ tag_collected' =
                         _merge_unique_tracks(tag_collected, r.out, IdentifyLimit)
                    /\ tag_i' = tag_i + 1
                    /\ UNCHANGED <<pc, status>>
    /\ Call("tag.getTopTracks", tag_i)
    /\ UNCHANGED <<request, playcount, top_tags, errors, result, similar_source,
                   from_track, from_artist, from_chart, frame, unfiltered, outcomes, mergeCall, normCall>>

\* lines 363-364 and 370-372: the loop ends, the tier's list is merged
IdTagEnd ==
    /\ pc = "tag_loop" /\ endpoint = "identify"
    /\ tag_i > Len(top_tags) \/ Len(tag_collected) >= IdentifyLimit
    /\ IF tag_collected # <<>>
       THEN /\ similar_sources' = Append(similar_sources, "tag.getTopTracks")
            /\ similar_tracks' =
                 _merge_unique_tracks(similar_tracks, tag_collected, IdentifyLimit)
       ELSE UNCHANGED result
    /\ pc' = "chart"
    /\ UNCHANGED <<status, request, playcount, top_tags, errors, similar_source, tiers,
                   frame, tag_i, unfiltered, calls, outcomes, mergeCall, normCall>>

\* the chart recorded under the label of the tier before it
ChartSourcesMislabelled(r) ==
    IF r.out # <<>> THEN Append(similar_sources, "tag.getTopTracks")
    ELSE similar_sources

\* the chart recorded only when its tracks made the list longer
ChartSourcesIfGrew(r) ==
    IF Len(_merge_unique_tracks(similar_tracks, r.out, Len(similar_tracks) + 1))
         > Len(similar_tracks)
    THEN Append(similar_sources, "chart.getTopTracks")
    ELSE similar_sources

\* the chart recorded as a source whatever it returned
ChartSourcesAlways(r) == Append(similar_sources, "chart.getTopTracks")

\* line 380-381 and line 517-518
ChartSources(r) ==
    IF r.out # <<>> THEN Append(similar_sources, "chart.getTopTracks")
    ELSE similar_sources

\* line 382 and line 519
ChartMerged(r, lim) ==
    IF r.out # <<>> THEN _merge_unique_tracks(similar_tracks, r.out, lim)
    ELSE similar_tracks

\* lines 384-416: the response, for the accumulated list and its sources
IdRespond(tracks, sources) ==
    /\ similar_tracks' = tracks
    /\ similar_sources' = sources
    /\ unfiltered' = tracks
    /\ similar_source' = SourceSummary(sources)
    /\ status' = 200
    /\ pc' = "done"

\* lines 374-416: the last tier and the response
IdChartTier ==
    /\ pc = "chart" /\ endpoint = "identify"
    /\ IF BelowLimit(similar_tracks, IdentifyLimit)
       THEN /\ \E payload \in TrackPayloads :
                 LET r == _lastfm_get_chart_top_tracks(payload, IdentifyLimit)
                 IN  CASE r.exc = "AttributeError" ->
                            /\ Propagate
                            /\ UNCHANGED <<from_chart, result, similar_source,
                                           unfiltered>>
                       [] OTHER ->
                            /\ from_chart' = r.out
                            /\ IdRespond(ChartMerged(r, IdentifyLimit), ChartSources(r))
            /\ Call("chart.getTopTracks", 0)
       ELSE /\ IdRespond(similar_tracks, similar_sources)
            /\ UNCHANGED <<from_chart, calls>>
    /\ UNCHANGED <<request, playcount, top_tags, errors, from_track, from_artist,
                   tag_collected, frame, tag_i, outcomes, mergeCall, normCall>>

(***************************************************************************)
(* POST /recommend                                                         *)
(***************************************************************************)
BodyArtists == {NONE, <<" ">>, <<" ", "A">>}
BodyTitles == {NONE, <<"X", " ">>}

Exclude(a, t) == [artist |-> a, title |-> t]
ExcludeEntries ==
    {Exclude(NONE, <<" ">>), Exclude(<<"B", " ">>, <<"x">>), Exclude(<<"c">>, <<" ", "X">>)}
ExcludeLists == UNION {[1..k -> ExcludeEntries] : k \in 0..MaxExclude}

\* lines 436-441
RECURSIVE ExcludeLoop(_, _)
ExcludeLoop(raw_exclude, keys) ==
    IF raw_exclude = <<>> THEN keys
    ELSE LET ex == Head(raw_exclude)
             a == Lower(Strip(OrEmpty(ex.artist)))
             t == Lower(Strip(OrEmpty(ex.title)))
         IN  ExcludeLoop(Tail(raw_exclude),
                         IF a # <<>> \/ t # <<>> THEN keys \cup {<<a, t>>} ELSE keys)

\* the exclusion set without the seed's own key
ExcludeKeysNoSeed(art, tit, raw_exclude) == ExcludeLoop(raw_exclude, {})

\* lines 434-443, for the validated (stripped) artist and title
ExcludeKeys(art, tit, raw_exclude) ==
    ExcludeLoop(raw_exclude, {}) \cup {<<Lower(Strip(art)), Lower(Strip(tit))>>}

\* line 475
FetchLimit == Desired + Cardinality(exclude_keys) + OverFetch

\* lines 419-447
Recommend ==
    /\ pc = "idle"
    /\ \E a \in BodyArtists, t \in BodyTitles, raw_exclude \in ExcludeLists :
         LET art == Strip(OrEmpty(a))
             tit == Strip(OrEmpty(t))
         IN  /\ body' = [artist |-> a, title |-> t]
             /\ IF art = <<>> \/ tit = <<>>
                THEN /\ status' = 400
                     /\ pc' = "done"
                     /\ UNCHANGED <<artist, title, exclude_keys>>
                ELSE /\ artist' = art
                     /\ title' = tit
                     /\ exclude_keys' = ExcludeKeys(art, tit, raw_exclude)
                     /\ pc' = "tags"
                     /\ status' = status
    /\ endpoint' = "recommend"
    /\ UNCHANGED <<playcount, top_tags, errors, result, similar_source, tiers, frame,
                   tag_i, unfiltered, calls, outcomes, mergeCall, normCall>>

\* lines 449-454
RecTopTags ==
    /\ pc = "tags" /\ endpoint = "recommend"
    /\ \E payload \in TagPayloads :
         LET r == _lastfm_get_top_tags(payload, TagLimit)
         IN  CASE r.exc = "AttributeError" ->
                    /\ Propagate
                    /\ UNCHANGED top_tags
               [] OTHER ->
                    /\ top_tags' = r.out
                    /\ pc' = "playcount" /\ status' = status
    /\ Call("track.getTopTags", 0)
    /\ UNCHANGED <<request, playcount, errors, result, similar_source, tiers, frame,
                   tag_i, unfiltered, outcomes, mergeCall, normCall>>

\* track.getInfo answers: the three failures, or a track whose "playcount" member
\* is the string val
InfoPayloads == FailurePayloads \cup {Payload("dict", <<"7">>)}

DigitValue(c) ==
    CASE c = "0" -> 0 [] c = "1" -> 1 [] c = "2" -> 2 [] c = "3" -> 3 [] c = "4" -> 4
      [] c = "5" -> 5 [] c = "6" -> 6 [] c = "7" -> 7 [] c = "8" -> 8 [] c = "9" -> 9
      [] OTHER -> -1

RECURSIVE ParseInt(_, _)
\* int(str): -1 stands for ValueError
ParseInt(str, acc) ==
    IF str = <<>> THEN acc
    ELSE IF DigitValue(Head(str)) < 0 THEN -1
    ELSE ParseInt(Tail(str), 10 * acc + DigitValue(Head(str)))

\* lines 457-471: every exception leaves playcount None
PlaycountOf(payload) ==
    CASE payload.kind = "transport" -> NoPlaycount
      [] payload.kind = "malformed" -> NoPlaycount
      [] payload.kind = "error" -> [null |-> FALSE, val |-> 0]
      [] payload.kind = "absent" -> [null |-> FALSE, val |-> 0]
      [] OTHER ->
           LET n == ParseInt(payload.val, 0)
           IN  IF payload.val = <<>> \/ n < 0 THEN NoPlaycount
               ELSE [null |-> FALSE, val |-> n]

\* lines 456-471
RecPlaycount ==
    /\ pc = "playcount" /\ endpoint = "recommend"
    /\ \E payload \in InfoPayloads :
         /\ info_outcome' = Outcome(payload)
         /\ playcount' = PlaycountOf(payload)
    /\ Call("track.getInfo", 0)
    /\ pc' = "track"
    /\ UNCHANGED <<status, request, top_tags, errors, result, similar_source, tiers,
                   frame, tag_i, unfiltered, tags_outcome, similar_outcome, mergeCall, normCall>>

\* lines 473-486
RecTrackTier ==
    /\ pc = "track" /\ endpoint = "recommend"
    /\ \E payload \in TrackPayloads :
         LET r == _lastfm_get_similar(payload, FetchLimit)
         IN  CASE r.exc = "AttributeError" ->
                    /\ Propagate
                    /\ UNCHANGED <<from_track, result>>
               [] OTHER ->
                    /\ from_track' = r.out
                    /\ IF r.out # <<>>
                       THEN /\ similar_sources' = Append(similar_sources, "track.getSimilar")
                            /\ similar_tracks' =
                                 _merge_unique_tracks(similar_tracks, r.out, FetchLimit)
                       ELSE UNCHANGED result
                    /\ pc' = "artist" /\ status' = status
    /\ Call("track.getSimilar", 0)
    /\ UNCHANGED <<request, playcount, top_tags, errors, similar_source, from_artist,
                   tag_collected, from_chart, frame, tag_i, unfiltered, outcomes, mergeCall, normCall>>

\* lines 488-491, with the accessor's own request (lines 113-131)
RecArtistTier ==
    /\ pc = "artist" /\ endpoint = "recommend"
    /\ IF BelowLimit(similar_tracks, FetchLimit)
       THEN /\ \E payload \in ArtistPayloads :
                 LET r == SimilarArtists(payload, FetchLimit)
                 IN  CASE r.exc = "AttributeError" ->
                            /\ Propagate
                            /\ UNCHANGED frame
                       [] OTHER ->
                            /\ artists' = r.out
                            /\ artist_i' = 1
                            /\ via_out' = <<>>
                            /\ via_exc' = (r.exc = "RequestException")
                            /\ pc' = IF r.out # <<>> THEN "lookup" ELSE "artist_end"
                            /\ status' = status
            /\ Call("artist.getSimilar", 0)
       ELSE /\ pc' = "tag"
            /\ UNCHANGED <<status, frame, calls>>
    /\ UNCHANGED <<request, playcount, top_tags, errors, result, similar_source, tiers,
                   tag_i, unfiltered, outcomes, mergeCall, normCall>>

\* lines 492-496
RecArtistEnd ==
    /\ pc = "artist_end" /\ endpoint = "recommend"
    /\ LET got == IF via_exc THEN <<>> ELSE via_out
       IN  /\ from_artist' = got
           /\ IF got # <<>>
              THEN /\ similar_sources' = Append(similar_sources, "artist.getSimilar")
                   /\ similar_tracks' =
                        _merge_unique_tracks(similar_tracks, got, FetchLimit)
              ELSE UNCHANGED result
    /\ pc' = "tag"
    /\ UNCHANGED <<status, request, playcount, top_tags, errors, similar_source,
                   from_track, tag_collected, from_chart, frame, tag_i, unfiltered, calls,
                   outcomes, mergeCall, normCall>>

\* lines 498-499
RecTagTier ==
    /\ pc = "tag" /\ endpoint = "recommend"
    /\ IF BelowLimit(similar_tracks, FetchLimit) /\ top_tags # <<>>
       THEN /\ tag_collected' = <<>>
            /\ tag_i' = 1
            /\ pc' = "tag_loop"
       ELSE /\ pc' = "chart"
            /\ UNCHANGED <<tag_collected, tag_i>>
    /\ UNCHANGED <<status, request, playcount, top_tags, errors, result, similar_source,
                   from_track, from_artist, from_chart, frame, unfiltered, calls,
                   outcomes, mergeCall, normCall>>

\* lines 500-507: one iteration of the loop over top_tags
RecTagCall ==
    /\ pc = "tag_loop" /\ endpoint = "recommend"
    /\ tag_i <= Len(top_tags) /\ Len(tag_collected) < FetchLimit
    /\ \E payload \in TrackPayloads :
         LET r == _lastfm_get_similar_via_tags(payload, FetchLimit)
         IN  CASE r.exc = "AttributeError" ->
                    /\ Propagate
                    /\ UNCHANGED <<tag_collected, tag_i>>
               [] r.exc = "RequestException" ->
                    /\ tag_i' = tag_i + 1
                    /\ UNCHANGED <<pc, status, tag_collected>>
               [] OTHER ->
                    /\ tag_collected' =
                         _merge_unique_tracks(tag_collected, r.out, FetchLimit)
                    /\ tag_i' = tag_i + 1
                    /\ UNCHANGED <<pc, status>>
    /\ Call("tag.getTopTracks", tag_i)
    /\ UNCHANGED <<request, playcount, top_tags, errors, result, similar_source,
                   from_track, from_artist, from_chart, frame, unfiltered, outcomes, mergeCall, normCall>>

\* lines 501-502 and 508-510: the loop ends, the tier's list is merged
RecTagEnd ==
    /\ pc = "tag_loop" /\ endpoint = "recommend"
    /\ tag_i > Len(top_tags) \/ Len(tag_collected) >= FetchLimit
    /\ IF tag_collected # <<>>
       THEN /\ similar_sources' = Append(similar_sources, "tag.getTopTracks")
            /\ similar_tracks' =
                 _merge_unique_tracks(similar_tracks, tag_collected, FetchLimit)
       ELSE UNCHANGED result
    /\ pc' = "chart"
    /\ UNCHANGED <<status, request, playcount, top_tags, errors, similar_source, tiers,
                   frame, tag_i, unfiltered, calls, outcomes, mergeCall, normCall>>

RECURSIVE FilterLoop(_, _, _, _)
FilterLoop(tracks, filtered, excluded, desired) ==
    IF tracks = <<>> THEN filtered
    ELSE IF _track_key(Head(tracks)) \in excluded
         THEN FilterLoop(Tail(tracks), filtered, excluded, desired)
         ELSE IF Len(filtered) + 1 >= desired THEN Append(filtered, Head(tracks))
              ELSE FilterLoop(Tail(tracks), Append(filtered, Head(tracks)), excluded,
                              desired)

\* truncate first, filter afterwards
FilterAfterCut(tracks, excluded, desired) ==
    FilterLoop(Take(tracks, desired), <<>>, excluded, desired)

\* lines 521-530
FilterExcluded(tracks, excluded, desired) == FilterLoop(tracks, <<>>, excluded, desired)

\* lines 521-543: the filter and the response, for the accumulated list and its
\* sources
RecRespond(tracks, sources) ==
    /\ unfiltered' = tracks
    /\ similar_tracks' = FilterExcluded(tracks, exclude_keys, Desired)
    /\ similar_sources' = sources
    /\ similar_source' = SourceSummary(sources)
    /\ status' = 200
    /\ pc' = "done"

\* lines 512-543: the last tier, the filter and the response
RecChartTier ==
    /\ pc = "chart" /\ endpoint = "recommend"
    /\ IF BelowLimit(similar_tracks, Desired)
       THEN /\ \E payload \in TrackPayloads :
                 LET r == _lastfm_get_chart_top_tracks(payload, FetchLimit)
                 IN  CASE r.exc = "AttributeError" ->
                            /\ Propagate
                            /\ UNCHANGED <<from_chart, result, similar_source,
                                           unfiltered>>
                       [] OTHER ->
                            /\ from_chart' = r.out
                            /\ RecRespond(ChartMerged(r, FetchLimit), ChartSources(r))
            /\ Call("chart.getTopTracks", 0)
       ELSE /\ RecRespond(similar_tracks, similar_sources)
            /\ UNCHANGED <<from_chart, calls>>
    /\ UNCHANGED <<request, playcount, top_tags, errors, from_track, from_artist,
                   tag_collected, frame, tag_i, outcomes, mergeCall, normCall>>

Next ==
    \/ Identify
    \/ IdTopTags
    \/ IdTrackTier
    \/ IdArtistTier
    \/ ArtistLookup
    \/ IdArtistEnd
    \/ IdTagTier
    \/ IdTagCall
    \/ IdTagEnd
    \/ IdChartTier
    \/ Recommend
    \/ RecTopTags
    \/ RecPlaycount
    \/ RecTrackTier
    \/ RecArtistTier
    \/ RecArtistEnd
    \/ RecTagTier
    \/ RecTagCall
    \/ RecTagEnd
    \/ RecChartTier

Spec == Init /\ [][Next]_vars

(***************************************************************************)
(* _merge_unique_tracks on its own: any accumulator, any incoming list     *)
(***************************************************************************)
MergeTracks == {ExtractTrack(Catalogue(i)) : i \in 1..4}

ListsUpTo(n) == UNION {[1..k -> MergeTracks] : k \in 0..n}

MergeInit ==
    /\ pc = "merge"
    /\ Idle
    /\ m_base \in ListsUpTo(MaxBase)
    /\ m_incoming \in ListsUpTo(MaxIncoming)
    /\ m_limit \in 0..(MaxIncoming + 1)
    /\ m_out = <<>>
    /\ m_base_after = m_base
    /\ m_again = <<>>
    /\ NoNormalize

MergeCall ==
    /\ pc = "merge"
    /\ m_out' = _merge_unique_tracks(m_base, m_incoming, m_limit)
    /\ m_base_after' = BaseAfterMerge(m_base, m_incoming, m_limit)
    /\ pc' = "merged"
    /\ UNCHANGED <<status, request, playcount, top_tags, errors, result, similar_source,
                   tiers, frame, tag_i, unfiltered, calls, outcomes, m_base, m_incoming,
                   m_limit, m_again, normCall>>

\* the same incoming list merged a second time, into the first merge's result
MergeAgain ==
    /\ pc = "merged"
    /\ m_again' = _merge_unique_tracks(m_out, m_incoming, m_limit)
    /\ pc' = "remerged"
    /\ UNCHANGED <<status, request, playcount, top_tags, errors, result, similar_source,
                   tiers, frame, tag_i, unfiltered, calls, outcomes, m_base, m_incoming,
                   m_limit, m_out, m_base_after, normCall>>

MergeNext == MergeCall \/ MergeAgain

SpecMerge == MergeInit /\ [][MergeNext]_vars

(***************************************************************************)
(* _normalize_lastfm_artist on its own: artist strings built from names,   *)
(* blanks, separators and featuring tokens, whole and partial              *)
(***************************************************************************)
Pieces ==
    { <<"a">>, <<"B">>, <<" ">>, <<"/">>, <<"&">>, <<",">>, <<";">>,
      <<" ", "f", "t">>,
      <<" ", "f", "t", ".", " ">>,
      <<" ", "F", "T", " ">>,
      <<" ", "f", "e", "a", "t", " ">>,
      <<" ", "f", "e", "a", "t", ".", " ">>,
      <<" ", "f", "e", "a", "t", "u", "r", "i", "n", "g", " ">> }

RECURSIVE Concat(_)
Concat(parts) == IF parts = <<>> THEN <<>> ELSE Head(parts) \o Concat(Tail(parts))

ArtistStrings == {Concat(parts) : parts \in UNION {[1..k -> Pieces] : k \in 0..MaxPieces}}

NormalizeInit ==
    /\ pc = "normalize"
    /\ Idle /\ NoMerge
    /\ n_artist \in ArtistStrings \cup {NONE}
    /\ n_out = <<>>

NormalizeCall ==
    /\ pc = "normalize"
    /\ n_out' = _normalize_lastfm_artist(n_artist)
    /\ pc' = "normalized"
    /\ UNCHANGED <<status, request, playcount, top_tags, errors, result, similar_source,
                   tiers, frame, tag_i, unfiltered, calls, outcomes, mergeCall, n_artist>>

SpecNormalize == NormalizeInit /\ [][NormalizeCall]_vars

(***************************************************************************)
(* Helpers of the properties                                               *)
(***************************************************************************)
NoDuplicateKeys(list) ==
    \A i, j \in 1..Len(list) : _track_key(list[i]) = _track_key(list[j]) => i = j

Done == pc = "done" /\ status = 200

Max(a, b) == IF a >= b THEN a ELSE b

HasEmptyKey(list) == EmptyKey \in Keys(list)

CallsOf(op) == {i \in 1..Len(calls) : calls[i].op = op}

ChartCalled == CallsOf("chart.getTopTracks") # {}

(***************************************************************************)
(* C1 as stated: whatever the accumulator, the merged list has no two      *)
(* entries with the same key and is no longer than the limit.              *)
(***************************************************************************)
C1_AnyBaseUniqueAndCapped ==
    pc \in {"merged", "remerged"} => NoDuplicateKeys(m_out) /\ Len(m_out) <= m_limit

(***************************************************************************)
(* C1 (amended): the merged list begins with the accumulator as it was,   *)
(* is no longer than max(len(base), limit), and two of its entries have    *)
(* the same key only when both are entries of the accumulator; so it has   *)
(* no two entries with the same key and at most limit entries whenever the *)
(* accumulator had.                                                        *)
(***************************************************************************)
C1_MergeUniqueAndCapped ==
    pc \in {"merged", "remerged"} =>
        /\ Len(m_out) >= Len(m_base)
        /\ SubSeq(m_out, 1, Len(m_base)) = m_base
        /\ Len(m_out) <= Max(Len(m_base), m_limit)
        /\ \A i, j \in 1..Len(m_out) :
               (i # j /\ _track_key(m_out[i]) = _track_key(m_out[j])) =>
                   (i <= Len(m_base) /\ j <= Len(m_base))
        /\ (NoDuplicateKeys(m_base) /\ Len(m_base) <= m_limit) =>
               (NoDuplicateKeys(m_out) /\ Len(m_out) <= m_limit)

\* a duplicate-free accumulator below the limit, an incoming list that repeats a
\* key, and a merge that the limit stopped
C1_Witness ==
    /\ pc = "merged"
    /\ NoDuplicateKeys(m_base) /\ Len(m_base) < m_limit
    /\ ~NoDuplicateKeys(m_incoming)
    /\ Len(m_out) = m_limit
    /\ Keys(m_incoming) \ Keys(m_out) # {}

(***************************************************************************)
(* C2: the list /identify holds after every tier, and the list either      *)
(* handler returns, has at most 5 entries, no two entries with the same    *)
(* key and no entry with the key ("", "").                                 *)
(***************************************************************************)
CappedUnique(list, n) == Len(list) <= n /\ NoDuplicateKeys(list) /\ ~HasEmptyKey(list)

C2_ReturnedTracksCappedUnique ==
    /\ endpoint = "identify" => CappedUnique(similar_tracks, IdentifyLimit)
    /\ (endpoint = "recommend" /\ Done) => CappedUnique(similar_tracks, Desired)

\* /recommend returned 5 tracks out of more, after a tier answered with a track
\* without a key and with the same track twice
C2_Witness ==
    /\ endpoint = "recommend" /\ Done
    /\ Len(similar_tracks) = Desired
    /\ Len(unfiltered) > Desired
    /\ HasEmptyKey(from_track) /\ ~NoDuplicateKeys(from_track)

(***************************************************************************)
(* C3: /identify issues its calls in the order exact track, similar        *)
(* artists, tags, chart; a call of a later tier is issued only while fewer *)
(* than 5 tracks are accumulated; and when the exact-track tier returned 5 *)
(* tracks with pairwise distinct non-empty keys, sources is                *)
(* ["track.getSimilar"] and no later tier's call was issued.               *)
(***************************************************************************)
TierRank(op) ==
    CASE op = "track.getTopTags" -> 0
      [] op = "track.getInfo" -> 0
      [] op = "track.getSimilar" -> 1
      [] op = "artist.getSimilar" -> 2
      [] op = "artist.getTopTracks" -> 2
      [] op = "tag.getTopTracks" -> 3
      [] OTHER -> 4

FullExactTier ==
    Len(from_track) >= IdentifyLimit /\ NoDuplicateKeys(from_track)
        /\ ~HasEmptyKey(from_track)

C3_TiersInOrderAndShortCircuit ==
    endpoint = "identify" =>
        /\ \A i, j \in 1..Len(calls) :
               i < j => TierRank(calls[i].op) <= TierRank(calls[j].op)
        /\ \A i \in 1..Len(calls) :
               TierRank(calls[i].op) >= 2 => calls[i].n < IdentifyLimit
        /\ FullExactTier =>
               /\ similar_sources = <<"track.getSimilar">>
               /\ \A i \in 1..Len(calls) : TierRank(calls[i].op) <= 1

\* /identify answered after an exact-track tier that filled the list
C3_Witness == endpoint = "identify" /\ Done /\ FullExactTier /\ Len(calls) = 2

C5_ChartAttemptedWhenShort ==
    (endpoint = "recommend" /\ Done /\ Len(similar_tracks) < Desired) => ChartCalled

(***************************************************************************)
(* C6 as stated: once the similar-artist tier is over, a top-track lookup  *)
(* was issued for every named similar artist, and the tier returned every  *)
(* track the lookups resolved.                                             *)
(***************************************************************************)
ArtistTierOver == pc \in {"tag", "tag_loop", "chart"} \/ Done

C6_LookupFailureIsolated ==
    ArtistTierOver =>
        /\ {calls[i].arg : i \in CallsOf("artist.getTopTracks")}
               = {i \in 1..Len(artists) : Truthy(artists[i])}
        /\ from_artist = via_out

(***************************************************************************)
(* C7 as stated: a request that reached the Last.fm calls always ends by   *)
(* returning the cascade's result, whatever a call answered.               *)
(***************************************************************************)
C7_FailuresNeverPropagate == (pc = "done" /\ calls # <<>>) => status = 200

(***************************************************************************)
(* C8: /recommend returns the first 5 entries, in order, of the            *)
(* accumulated list without the tracks whose key is excluded; no returned  *)
(* track has an excluded key.                                              *)
(***************************************************************************)
NotExcluded(t) == _track_key(t) \notin exclude_keys

C8_FilteredPrefix ==
    (endpoint = "recommend" /\ Done) =>
        /\ similar_tracks = Take(SelectSeq(unfiltered, NotExcluded), Desired)
        /\ Keys(similar_tracks) \cap exclude_keys = {}

\* the first three accumulated tracks are excluded and the next five are returned
C8_Witness ==
    /\ endpoint = "recommend" /\ Done
    /\ Len(unfiltered) >= 8
    /\ Keys(SubSeq(unfiltered, 1, 3)) \subseteq exclude_keys
    /\ similar_tracks = SubSeq(unfiltered, 4, 8)

(***************************************************************************)
(* C9: once /recommend has validated the body, the exclusion set holds the *)
(* key of the seed (the body's artist and title, trimmed and lower-cased), *)
(* and no returned track has that key.                                     *)
(***************************************************************************)
SeedKey ==
    <<Lower(Strip(OrEmpty(body.artist))), Lower(Strip(OrEmpty(body.title)))>>

C9_SeedExcluded ==
    (endpoint = "recommend" /\ status # 400) =>
        /\ SeedKey \in exclude_keys
        /\ Done => SeedKey \notin Keys(similar_tracks)

\* no exclude list, the cascade found the seed itself, and tracks were returned
C9_Witness ==
    /\ endpoint = "recommend" /\ Done
    /\ exclude_keys = {SeedKey}
    /\ SeedKey \in Keys(unfiltered)
    /\ similar_tracks # <<>>

\* the accumulated list: what the cascade holds, before /recommend filters it
Accumulated == IF endpoint = "recommend" /\ Done THEN unfiltered ELSE similar_tracks

(***************************************************************************)
(* C10 as stated: a step appends a label to sources exactly when it makes  *)
(* the accumulated list longer.                                            *)
(***************************************************************************)
C10_RecordedIffCountGrew ==
    [][(similar_sources' # similar_sources) <=> (Len(Accumulated') > Len(Accumulated))]_vars

(***************************************************************************)
(* C10 (amended): a tier's label is appended to sources exactly when the   *)
(* tier is merged and its own list (for the tag tier: its tier-local list) *)
(* is not empty; every step that makes the accumulated list longer appends *)
(* a label, but the list need not grow for a label to be appended.         *)
(***************************************************************************)
C10_RecordedIfGrewOnlyIfReturned ==
    [][/\ Len(Accumulated') > Len(Accumulated) => similar_sources' # similar_sources
       /\ similar_sources' # similar_sources <=>
            \/ pc = "track" /\ from_track' # <<>>
            \/ pc = "artist_end" /\ from_artist' # <<>>
            \/ pc = "tag_loop" /\ pc' = "chart" /\ tag_collected # <<>>
            \/ pc = "chart" /\ from_chart' # <<>>
       /\ similar_sources' # similar_sources =>
            /\ Len(similar_sources') = Len(similar_sources) + 1
            /\ SubSeq(similar_sources', 1, Len(similar_sources)) = similar_sources
            /\ LET label == similar_sources'[Len(similar_sources')]
               IN  CASE label = "track.getSimilar" -> from_track' # <<>>
                     [] label = "artist.getSimilar" -> from_artist' # <<>>
                     [] label = "tag.getTopTracks" -> tag_collected' # <<>>
                     [] OTHER -> from_chart' # <<>>]_vars

\* the similar-artist tier returned only tracks the list already held and is
\* recorded all the same, and the chart tier made the list longer
C10_Witness ==
    /\ Done
    /\ from_artist # <<>> /\ Keys(from_artist) \subseteq Keys(from_track)
    /\ \E i \in 1..Len(similar_sources) : similar_sources[i] = "artist.getSimilar"
    /\ ChartCalled /\ Len(Accumulated) > calls[Len(calls)].n

(***************************************************************************)
(* Helpers of the properties about sources                                 *)
(***************************************************************************)
SourceOrder ==
    <<"track.getSimilar", "artist.getSimilar", "tag.getTopTracks", "chart.getTopTracks">>

SourceRank(label) == CHOOSE i \in 1..Len(SourceOrder) : SourceOrder[i] = label

Recorded(label) == \E i \in 1..Len(similar_sources) : similar_sources[i] = label

\* the list the tier of a label yielded
TierList(label) ==
    CASE label = "track.getSimilar" -> from_track
      [] label = "artist.getSimilar" -> from_artist
      [] label = "tag.getTopTracks" -> tag_collected
      [] OTHER -> from_chart

Usable(list) == Keys(list) \ {EmptyKey} # {}

InAttemptOrderOnce ==
    /\ \A i \in 1..Len(similar_sources) :
           \E k \in 1..Len(SourceOrder) : SourceOrder[k] = similar_sources[i]
    /\ \A i, j \in 1..Len(similar_sources) :
           i < j => SourceRank(similar_sources[i]) < SourceRank(similar_sources[j])

(***************************************************************************)
(* C11 as stated: sources is a subsequence of the attempt order without    *)
(* repetition, and every label in it is of a tier that was called and      *)
(* returned a track with a non-empty key.                                  *)
(***************************************************************************)
C11_SourcesOrderedUsable ==
    /\ InAttemptOrderOnce
    /\ \A i \in 1..Len(similar_sources) :
           CallsOf(similar_sources[i]) # {} /\ Usable(TierList(similar_sources[i]))

(***************************************************************************)
(* C11 (amended): sources is a subsequence of the attempt order without    *)
(* repetition, and every label in it is of a tier that was called and      *)
(* yielded a non-empty list; the list need not hold a track with a         *)
(* non-empty key.                                                          *)
(***************************************************************************)
C11_SourcesOrderedNonEmpty ==
    /\ InAttemptOrderOnce
    /\ \A i \in 1..Len(similar_sources) :
           CallsOf(similar_sources[i]) # {} /\ TierList(similar_sources[i]) # <<>>

\* all four tiers are recorded, the first for a single track without a key
C11_Witness ==
    /\ Done
    /\ similar_sources = SourceOrder
    /\ from_track # <<>> /\ ~Usable(from_track)

(***************************************************************************)
(* C16: the label of the exact-track, the similar-artist and the chart     *)
(* tier is in sources exactly when the tier was called and returned a      *)
(* non-empty list, also when the merge of that list left the accumulated   *)
(* list as it was; the label of the tag tier is in sources exactly when    *)
(* the loop over the tags is over and the tier-local list is not empty.    *)
(***************************************************************************)
TagLoopOver == pc = "chart" \/ Done

C16_RecordedIffRawOutput ==
    /\ \A label \in {"track.getSimilar", "artist.getSimilar", "chart.getTopTracks"} :
           Recorded(label) <=> (CallsOf(label) # {} /\ TierList(label) # <<>>)
    /\ Recorded("tag.getTopTracks") =>
           (CallsOf("tag.getTopTracks") # {} /\ tag_collected # <<>>)
    /\ TagLoopOver => (Recorded("tag.getTopTracks") <=> tag_collected # <<>>)

\* the chart returned only tracks the list already held: the list is as it was
\* before the call and the chart is recorded
C16_Witness ==
    /\ Done /\ ChartCalled
    /\ from_chart # <<>> /\ Usable(from_chart)
    /\ Len(Accumulated) = calls[Len(calls)].n
    /\ Recorded("chart.getTopTracks")

(***************************************************************************)
(* C12: merging a list without duplicate keys into itself returns it       *)
(* unchanged, whatever the limit; and merging the same incoming list a     *)
(* second time into the result of a first merge returns that result        *)
(* unchanged.                                                              *)
(***************************************************************************)
C12_MergeIdempotent ==
    /\ (pc \in {"merged", "remerged"} /\ m_incoming = m_base /\ NoDuplicateKeys(m_base))
           => m_out = m_base
    /\ pc = "remerged" => m_again = m_out

\* a two-track list without duplicate keys merged into itself below the limit,
\* and merged once more
C12_Witness ==
    /\ pc = "remerged"
    /\ m_incoming = m_base /\ Len(m_base) = 2 /\ NoDuplicateKeys(m_base)
    /\ m_limit > Len(m_base)
    /\ m_again = m_base

(***************************************************************************)
(* C19: the merged list is base followed by the first occurrences, in      *)
(* incoming's order, of the keys of incoming that are not ("", "") and not *)
(* in base, as many of them as the limit leaves room for; and the caller's *)
(* base list is the same after the call.                                   *)
(***************************************************************************)
FirstOccurrences(base, incoming) ==
    LET idx == {i \in 1..Len(incoming) :
                  /\ _track_key(incoming[i]) # EmptyKey
                  /\ _track_key(incoming[i]) \notin Keys(base)
                  /\ \A j \in 1..(i - 1) :
                         _track_key(incoming[j]) # _track_key(incoming[i])}
        nth(k) == CHOOSE i \in idx : Cardinality({j \in idx : j <= i}) = k
    IN  [k \in 1..Cardinality(idx) |-> incoming[nth(k)]]

C13_ErrorFieldsExact ==
    (endpoint = "identify" /\ pc = "done" /\ calls # <<>>) =>
        /\ lastfm_tags_error <=> tags_outcome # "ok"
        /\ tags_outcome # "ok" => CallsOf("track.getSimilar") # {}
        /\ similar_outcome # "none" =>
               /\ lastfm_similar_error <=> similar_outcome # "ok"
               /\ similar_outcome # "ok" => CallsOf("artist.getSimilar") # {}

(***************************************************************************)
(* C17 as stated: a step that issues a tag's top-tracks call does so for   *)
(* the next tag of a non-empty top_tags, in the order of the list, with    *)
(* the tier-local list below the cascade limit, leaves the overall list    *)
(* alone and, whatever the call answered, stays in the loop for the next   *)
(* tag; and the loop is left for the merge only when every tag was tried   *)
(* or the tier-local list reached the limit.                               *)
(***************************************************************************)
CascadeLimit == IF endpoint = "identify" THEN IdentifyLimit ELSE FetchLimit

C17_TagLoopInOrderSkippingFailures ==
    [][/\ (Len(calls') > Len(calls) /\ calls'[Len(calls')].op = "tag.getTopTracks") =>
            /\ top_tags # <<>>
            /\ calls'[Len(calls')].arg = Cardinality(CallsOf("tag.getTopTracks")) + 1
            /\ calls'[Len(calls')].arg <= Len(top_tags)
            /\ Len(tag_collected) < CascadeLimit
            /\ similar_tracks' = similar_tracks /\ similar_sources' = similar_sources
            /\ pc' = "tag_loop" /\ tag_i' = tag_i + 1
       /\ (pc = "tag_loop" /\ pc' = "chart") =>
            (tag_i > Len(top_tags) \/ Len(tag_collected) >= CascadeLimit)]_vars

(***************************************************************************)
(* C14 as stated: the step of /recommend that fetches track.getInfo leaves *)
(* playcount null whenever the fetch failed, and whatever the fetch        *)
(* answered it goes on to the exact-track tier and changes nothing but     *)
(* playcount: the tags, the lists, the sources and the exclusion set are   *)
(* as they were.                                                           *)
(***************************************************************************)
C14_InfoFailureOnlyNullsPlaycount ==
    [][(endpoint = "recommend" /\ pc = "playcount") =>
          /\ info_outcome' # "ok" => playcount'.null
          /\ pc' = "track" /\ status' = status
          /\ UNCHANGED <<request, top_tags, result, similar_source, tiers, frame,
                         tag_i, unfiltered>>]_vars

\* the lowest 0-based index where one of the strings of the sequence ts occurs in s,
\* -1 when none does
FirstOfAny(s, ts) ==
    IF \E k \in 1..Len(ts) : Contains(s, ts[k])
    THEN CHOOSE i \in 0..Len(s) :
             /\ \E k \in 1..Len(ts) : OccursAt(s, ts[k], i)
             /\ \A j \in 0..(i - 1) : \A k \in 1..Len(ts) : ~OccursAt(s, ts[k], j)
    ELSE -1

\* s cut, trimmed, before the first occurrence in look of any string of ts
CutAtFirst(s, look, ts) ==
    IF FirstOfAny(look, ts) >= 0 THEN Strip(Prefix(s, FirstOfAny(look, ts))) ELSE s

PrimaryArtist(a) ==
    LET s == Strip(OrEmpty(a))
        head == CutAtFirst(s, s, Separators)
    IN  CutAtFirst(head, Lower(head), Tokens)

(***************************************************************************)
(* C15 as stated: the normaliser returns the trimmed part of the artist    *)
(* string before the first occurrence of any separator, truncated and      *)
(* trimmed at the first case-insensitive occurrence of any featuring       *)
(* token; its output holds no separator and no token.                      *)
(***************************************************************************)
C15_PrimaryArtist ==
    pc = "normalized" =>
        /\ n_out = PrimaryArtist(n_artist)
        /\ \A k \in 1..Len(Separators) : ~Contains(n_out, Separators[k])
        /\ \A k \in 1..Len(Tokens) : ~Contains(Lower(n_out), Tokens[k])

SingleShot ==
    {"track.getTopTags", "track.getSimilar", "artist.getSimilar", "chart.getTopTracks",
     "track.getInfo"}

(***************************************************************************)
(* C18: within one request no remote operation is retried.  The top-tags,  *)
(* exact-track, similar-artists, chart and track.getInfo fetches are each  *)
(* issued at most once, track.getInfo only by /recommend; the tag fetch is *)
(* issued at most once per position of top_tags and the top-track lookup   *)
(* at most once per position of the similar-artist list, each in rising    *)
(* order of position, whether or not a call failed.                        *)
(***************************************************************************)
C18_NoRetries ==
    /\ \A op \in SingleShot : Cardinality(CallsOf(op)) <= 1
    /\ endpoint # "recommend" => CallsOf("track.getInfo") = {}
    /\ \A i, j \in 1..Len(calls) :
           (i < j /\ calls[i].op = calls[j].op) => calls[i].arg < calls[j].arg
    /\ \A i \in CallsOf("tag.getTopTracks") : calls[i].arg \in 1..Len(top_tags)
    /\ \A i \in CallsOf("artist.getTopTracks") : calls[i].arg \in 1..Len(artists)

\* a request that went on after failed calls: the exact-track fetch failed, a lookup
\* failed, two tags were called without a track gained, and the chart was called
C18_Witness ==
    /\ pc = "done" /\ status = 200
    /\ similar_outcome = "failed"
    /\ via_exc
    /\ Cardinality(CallsOf("tag.getTopTracks")) = 2
    /\ tag_collected = <<>>
    /\ ChartCalled

\* the tracks of a list that the exclusion filter drops
Removed(list) == Len(list) - Len(SelectSeq(list, NotExcluded))

(***************************************************************************)
(* C20: the over-fetch margin of /recommend is sufficient.  The keys of    *)
(* the accumulated list are pairwise distinct and the list is no longer    *)
(* than fetch_limit = desired + |exclusion set| + 10; the filter removes   *)
(* at most |exclusion set| of its tracks; so whenever the accumulated list *)
(* holds at least desired + |exclusion set| tracks, the response holds     *)
(* exactly desired (5) tracks.                                             *)
(***************************************************************************)
C20_OverFetchSuffices ==
    (endpoint = "recommend" /\ Done) =>
           /\ Cardinality(Keys(unfiltered)) = Len(unfiltered)
           /\ Len(unfiltered) <= FetchLimit
           /\ Removed(unfiltered) <= Cardinality(exclude_keys)
           /\ Len(unfiltered) >= Desired + Cardinality(exclude_keys) =>
                  Len(similar_tracks) = Desired

\* the margin is used in full: the accumulated list holds exactly desired plus
\* |exclusion set| tracks, all the excluded keys among them, and five are left
C20_Witness ==
    /\ endpoint = "recommend" /\ Done
    /\ Cardinality(exclude_keys) >= 2
    /\ Len(unfiltered) >= Desired + Cardinality(exclude_keys)
    /\ Removed(unfiltered) = Cardinality(exclude_keys)
    /\ Len(similar_tracks) = Desired

\* the tracks of a list
Elements(list) == {list[i] : i \in 1..Len(list)}

(***************************************************************************)
(* C21: in the response of either cascade, every returned track is in the  *)
(* list of a tier that was recorded, so a non-empty similar_tracks implies *)
(* a non-empty sources list; and similar_source is "none" exactly when     *)
(* sources is empty, the single label when sources has one entry, and      *)
(* "merged" exactly when sources has two or more entries.                  *)
(***************************************************************************)
C21_SummaryMatchesSources ==
    Done =>
        /\ \A t \in Elements(similar_tracks) :
               \E i \in 1..Len(similar_sources) : t \in Elements(TierList(similar_sources[i]))
        /\ similar_tracks # <<>> => similar_sources # <<>>
        /\ similar_source = "none" <=> similar_sources = <<>>
        /\ Len(similar_sources) = 1 => similar_source = similar_sources[1]
        /\ similar_source = "merged" <=> Len(similar_sources) >= 2

\* a response built from three tiers and summarised as "merged"
C21_Witness ==
    /\ Done
    /\ Len(similar_sources) = 3
    /\ similar_source = "merged"
    /\ Len(similar_tracks) >= 3

====
